---- MODULE Spec2Model ----
(***************************************************************************)
(* Model of the FPT admissions chatbot backend (backend/app):              *)
(*   api/chat.py            POST /api/chat handler, module-level service   *)
(*   schemas/chat.py        ChatRequest validation, ChatResponse           *)
(*   services/chat_service  ChatService (lazy RAGEngine, process_message)  *)
(*   core/rag_engine.py     RAGEngine.generate (retrieve, prompt, LLM)     *)
(*   core/prompt_builder.py PromptBuilder.build / build_without_context    *)
(*   retriever/faiss_*.py   FAISSRetriever (the engine's default)          *)
(*   retriever/chroma_*.py  ChromaRetriever                                *)
(*                                                                         *)
(* Strings that the code measures or scans (the request message, a query)  *)
(* are sequences of characters; other texts are opaque string tokens.      *)
(* Floats are exact rationals [num, den] with den > 0.                     *)
(***************************************************************************)
EXTENDS Integers, Sequences, FiniteSets, TLC

\* ------------------------------------------------------------------ bounds
\* Requests that may be in flight at once.
NumRequests == 2
\* Longest documents.pkl list in the service specification.
MaxFileDocs == 3
\* Longest documents.pkl list in the FAISS retriever specification.
MaxIndexDocs == 6
\* Most entries of the Chroma collection.
MaxResults == 2
\* How many documents a direct call of PromptBuilder.build is given at most.
MaxBuildDocs == 2

\* ------------------------------------------------------- program constants
\* schemas/chat.py: Field(..., min_length=1, max_length=1000)
MIN_LENGTH == 1
MAX_LENGTH == 1000
\* FAISSRetriever.search defaults: top_k = 5, score_threshold = 0.7
DEFAULT_TOP_K == 5
\* config.py: TOP_K = 5, SCORE_THRESHOLD = 0.7
TOP_K == 5

Requests == 1..NumRequests
NoKey == "<absent>"

\* ---------------------------------------------------------------- rationals
Rat(n, d) == [num |-> n, den |-> d]
RatLeq(a, b) == a.num * b.den <= b.num * a.den
RatLess(a, b) == a.num * b.den < b.num * a.den
RatEq(a, b) == a.num * b.den = b.num * a.den
DEFAULT_SCORE_THRESHOLD == Rat(7, 10)
SCORE_THRESHOLD == Rat(7, 10)

\* -------------------------------------------------------------- sequences
Rep(c, n) == [i \in 1..n |-> c]
Min(a, b) == IF a <= b THEN a ELSE b

\* str.strip() leaves nothing: every character is whitespace.
IsBlank(q) == \A i \in 1..Len(q) : q[i] = " "

\* ------------------------------------------------------------ request body
\* The JSON body of POST /api/chat: the message field may be missing.
Body(present, message) == [present |-> present, message |-> message]
MissingBody == Body(FALSE, <<>>)
Bodies ==
    { MissingBody,
      Body(TRUE, <<>>),
      Body(TRUE, <<"a">>),
      Body(TRUE, Rep("a", MAX_LENGTH)),
      Body(TRUE, Rep("a", MAX_LENGTH + 1)) }

\* ChatRequest: message is required, min_length=1, max_length=1000.
ChatRequestValidNoMax(body) ==
    /\ body.present
    /\ Len(body.message) >= MIN_LENGTH

ChatRequestValid(body) ==
    /\ body.present
    /\ Len(body.message) >= MIN_LENGTH
    /\ Len(body.message) <= MAX_LENGTH

\* ------------------------------------------------------ documents, metadata
\* A metadata value: a dict (keys title/url present or absent) or None.
MetaDict(title, url) == [kind |-> "dict", title |-> title, url |-> url]
EmptyDict == MetaDict(NoKey, NoKey)
MetaNone == [kind |-> "none", title |-> NoKey, url |-> NoKey]
MetaAbsent == [kind |-> "absent", title |-> NoKey, url |-> NoKey]

\* A retrieved document {"content", "metadata", "score"}. A document handed
\* to PromptBuilder.build directly may lack any of the keys: content = NoKey,
\* metadata = MetaAbsent, score = NoScore.
Doc(content, metadata, score) ==
    [content |-> content, metadata |-> metadata, score |-> score]
NoScore == [num |-> 0, den |-> 0]

\* An entry of documents.pkl: a dict whose keys content / metadata may be
\* absent (content = NoKey, metadata = MetaAbsent).
Pickled(content, metadata) == [content |-> content, metadata |-> metadata]

\* The entries a documents.pkl is made of here: the i-th is, in turn, a
\* full document, one with neither key, and one whose metadata is None.
PickledAt(i) ==
    CASE i % 3 = 1 -> Pickled("cA", MetaDict("tA", "uA"))
      [] i % 3 = 2 -> Pickled(NoKey, MetaAbsent)
      [] OTHER     -> Pickled("cC", MetaNone)
PickledList(n) == [i \in 1..n |-> PickledAt(i)]

\* The vectorstore directory: faiss_index.bin and documents.pkl may or may
\* not exist.
Files(indexExists, docsExists, docs) ==
    [indexExists |-> indexExists, docsExists |-> docsExists, docs |-> docs]
FileStates ==
    { Files(FALSE, FALSE, <<>>), Files(TRUE, FALSE, <<>>) }
        \cup { Files(TRUE, TRUE, PickledList(n)) : n \in 0..MaxFileDocs }

\* ----------------------------------------------------------- FAISSRetriever
\* FAISSRetriever fields: _index (loaded or None) and _documents (a list or
\* None).
FaissCache(index, hasDocs, docs) == [index |-> index, hasDocs |-> hasDocs, docs |-> docs]
FaissEmpty == FaissCache(FALSE, FALSE, <<>>)

\* _load_index: nothing to do once _index is set; no index file, nothing
\* loaded; otherwise the index is read and, when documents.pkl exists, the
\* documents too. (A failing "import faiss" acts like a missing index file, a
\* failing pickle.load like a missing documents.pkl.)
FaissLoadIndexReload(cache, files) ==
    IF ~files.indexExists THEN cache
    ELSE IF files.docsExists THEN FaissCache(TRUE, TRUE, files.docs)
    ELSE FaissCache(TRUE, cache.hasDocs, cache.docs)

FaissLoadIndex(cache, files) ==
    IF cache.index THEN cache
    ELSE IF ~files.indexExists THEN cache
    ELSE IF files.docsExists THEN FaissCache(TRUE, TRUE, files.docs)
    ELSE FaissCache(TRUE, cache.hasDocs, cache.docs)

\* The i-th placeholder result (i from 0): the first documents, with
\* .get("content", ""), .get("metadata", {}) and score 1.0 - i * 0.1.
FaissResult(pickled, i) ==
    Doc(IF pickled.content = NoKey THEN "" ELSE pickled.content,
        IF pickled.metadata.kind = "absent" THEN EmptyDict ELSE pickled.metadata,
        Rat(10 - i, 10))

\* search(query, top_k, score_threshold) on a retriever whose _load_index
\* has run: [] without index or documents, else the first
\* min(top_k, len(documents)) documents. score_threshold is not read.
FaissSearch(cache, query, top_k, score_threshold) ==
    IF ~cache.index \/ ~cache.hasDocs THEN <<>>
    ELSE [i \in 1..Min(top_k, Len(cache.docs)) |-> FaissResult(cache.docs[i], i - 1)]

\* ---------------------------------------------------------- ChromaRetriever
\* One result of collection.query: the document text, its metadata (a dict
\* or None) and its cosine distance.
Entry(document, metadata, distance) ==
    [document |-> document, metadata |-> metadata, distance |-> distance]

\* Distances the store may report: -0.5, 0, 0.5, ... 2.5 (cosine distance is
\* in [0, 2]; rounding can push a reported value just outside).
Distances == { Rat(n, 2) : n \in -1..5 }
EntryMetadata == { MetaDict("tA", "uA"), MetaDict(NoKey, NoKey), MetaNone }
DocumentAt(i) == CASE i % 2 = 1 -> "dA" [] OTHER -> "dB"

\* The collection as the store ranks it for a query: nearest first.
RECURSIVE Rankings(_)
Rankings(n) ==
    IF n = 0 THEN { <<>> }
    ELSE LET shorter == Rankings(n - 1)
         IN  shorter \cup
             { Append(s, Entry(DocumentAt(n), m, d)) :
                 s \in { t \in shorter : Len(t) = n - 1 },
                 m \in EntryMetadata,
                 d \in Distances }
Sorted(ranking) ==
    \A i \in 1..Len(ranking) - 1 : RatLeq(ranking[i].distance, ranking[i + 1].distance)
Collections == { c \in Rankings(MaxResults) : Sorted(c) }

\* collection.query(query_embeddings=[e], n_results=n): the n nearest
\* entries, fewer when the collection holds fewer.
ChromaQuery(coll, n) == SubSeq(coll, 1, Min(n, Len(coll)))

\* "top_k = top_k or settings.TOP_K": None (here 0) and 0 give the default.
ChromaTopK(top_k) == IF top_k = 0 THEN TOP_K ELSE top_k

\* "score = 1.0 - (distance / 2.0)"
ChromaScoreL2(distance) == Rat(distance.den, distance.den + distance.num)
ChromaScore(distance) == Rat(2 * distance.den - distance.num, 2 * distance.den)

\* "metadata or {}"
MetadataAsIs(metadata) == metadata
MetadataOrEmpty(metadata) == IF metadata.kind = "none" THEN EmptyDict ELSE metadata

\* The loop over zip(documents, metadatas, distances): one document per
\* result, in the store's order.
ChromaDocument(e) ==
    Doc(e.document, MetadataOrEmpty(e.metadata), ChromaScore(e.distance))
ChromaDocumentsFiltered(results) ==
    LET Keep(e) == RatLeq(SCORE_THRESHOLD, ChromaScore(e.distance))
        kept == SelectSeq(results, Keep)
    IN  [i \in 1..Len(kept) |-> ChromaDocument(kept[i])]
ChromaDocuments(results) == [i \in 1..Len(results) |-> ChromaDocument(results[i])]

\* ChromaRetriever.search(query, top_k): [] for an empty or whitespace-only
\* query, without asking the store; otherwise the query is embedded and the
\* store queried (either may raise: storeOk), and an exception is re-raised.
\*   queried    the store was asked
\*   raised     search raised
\*   reply      what the store returned
\*   documents  what search returned
ChromaSearch(coll, query, top_k, storeOk) ==
    IF query = <<>> \/ IsBlank(query)
    THEN [queried |-> FALSE, raised |-> FALSE, reply |-> <<>>, documents |-> <<>>]
    ELSE IF ~storeOk
    THEN [queried |-> TRUE, raised |-> TRUE, reply |-> <<>>, documents |-> <<>>]
    ELSE LET results == ChromaQuery(coll, ChromaTopK(top_k))
         IN  [queried |-> TRUE, raised |-> FALSE, reply |-> results,
              documents |-> ChromaDocuments(results)]

\* ------------------------------------------------------------ PromptBuilder
\* A prompt is the sequence of its parts, in order.
Seg(k, i, title, url, score, content, query) ==
    [k |-> k, i |-> i, title |-> title, url |-> url, score |-> score,
     content |-> content, query |-> query]
Fixed(k) == Seg(k, 0, "", "", Rat(0, 1), "", <<>>)
SYSTEM_PROMPT == Fixed("SYSTEM_PROMPT")

\* "{score:.2f}": the score rounded to hundredths.
Fmt2f(score) == Rat((200 * score.num + score.den) \div (2 * score.den), 100)

\* build_without_context: system prompt, "CAU HOI: {query}" and the canned
\* "TRA LOI: Xin loi, ..." line.
build_without_context(query) ==
    << SYSTEM_PROMPT,
       Seg("CAU HOI:", 0, "", "", Rat(0, 1), "", query),
       Fixed("TRA LOI: Xin loi, toi khong co thong tin ve van de nay.") >>

\* One "--- Nguon {i} ({title} - {url}) [Do lien quan: {score:.2f}] ---\n{content}".
\* with doc.get("content", ""), doc.get("metadata", {}),
\* metadata.get("title", "Nguon khong ten"), metadata.get("url", "#") and
\* doc.get("score", 0.0).
SourceBlockNoDefaults(i, doc) ==
    Seg("Nguon", i, doc.metadata.title, doc.metadata.url,
        IF doc.score = NoScore THEN Fmt2f(Rat(0, 1)) ELSE Fmt2f(doc.score),
        IF doc.content = NoKey THEN "" ELSE doc.content,
        <<>>)
SourceBlock(i, doc) ==
    Seg("Nguon", i,
        IF doc.metadata.title = NoKey THEN "Nguon khong ten" ELSE doc.metadata.title,
        IF doc.metadata.url = NoKey THEN "#" ELSE doc.metadata.url,
        IF doc.score = NoScore THEN Fmt2f(Rat(0, 1)) ELSE Fmt2f(doc.score),
        IF doc.content = NoKey THEN "" ELSE doc.content,
        <<>>)

\* metadata.get(...) raises AttributeError when the metadata is None (an
\* absent metadata key is read as {}).
BuildRaises(documents) ==
    \E i \in 1..Len(documents) : documents[i].metadata.kind = "none"

\* build(query, documents) when it returns.
BuildNoFallback(query, documents) ==
    << SYSTEM_PROMPT, Fixed("DU LIEU DAU VAO (CONTEXT):") >>
        \o [i \in 1..Len(documents) |-> SourceBlock(i, documents[i])]
        \o << Fixed("CAU HOI NGUOI DUNG:"),
              Seg("query", 0, "", "", Rat(0, 1), "", query),
              Fixed("TRA LOI:") >>

build(query, documents) ==
    IF documents = <<>> THEN build_without_context(query)
    ELSE << SYSTEM_PROMPT, Fixed("DU LIEU DAU VAO (CONTEXT):") >>
         \o [i \in 1..Len(documents) |-> SourceBlock(i, documents[i])]
         \o << Fixed("CAU HOI NGUOI DUNG:"),
               Seg("query", 0, "", "", Rat(0, 1), "", query),
               Fixed("TRA LOI:") >>

\* ----------------------------------------------------------------- the LLM
\* BaseLLM.generate(prompt): the model's reply, or an exception.
Outcome(raised, text) == [raised |-> raised, text |-> text]
LLMOutcomes == { Outcome(FALSE, "answer1"), Outcome(FALSE, "answer2"),
                 Outcome(TRUE, "llm error") }

\* ---------------------------------------------------------------- RAGEngine
\* The dict RAGEngine.generate returns.
RagResultFirstSource(answer, documents) ==
    [answer |-> answer,
     sources |-> [i \in 1..Min(1, Len(documents)) |-> documents[i].metadata],
     num_sources |-> Len(documents)]
RagResult(answer, documents) ==
    [answer |-> answer,
     sources |-> [i \in 1..Len(documents) |-> documents[i].metadata],
     num_sources |-> Len(documents)]
NoResult == [answer |-> "", sources |-> <<>>, num_sources |-> 0]

\* -------------------------------------------------------------- ChatService
\* ChatResponse(answer, sources, metadata): metadata is a dict with the keys
\* in `keys`.
ChatResponse(answer, sources, keys, model, num_sources, error) ==
    [answer |-> answer, sources |-> sources,
     metadata |-> [keys |-> keys, model |-> model, num_sources |-> num_sources,
                   error |-> error]]
NoResponse == ChatResponse("", <<>>, {}, "", 0, "")
APOLOGY == "Xin loi, da co loi xay ra. Vui long thu lai sau."

\* process_message's return on success (lines 47-54).
SuccessResponse(result) ==
    ChatResponse(result.answer, result.sources, {"model", "num_sources"},
                 "gemini", result.num_sources, "")
\* process_message's return in its except branch (lines 55-63).
ErrorResponseWithModel(e) == ChatResponse(APOLOGY, <<>>, {"model", "error"}, "gemini", 0, e)
ErrorResponse(e) == ChatResponse(APOLOGY, <<>>, {"error"}, "", 0, e)

\* What process_message hands to its caller: a ChatResponse, or an exception
\* that escapes it. `exc` is the exception raised inside the try block
\* ("" when none was).
Returned(response) == [raised |-> FALSE, response |-> response, detail |-> ""]
Escaped(e) == [raised |-> TRUE, response |-> NoResponse, detail |-> e]
ProcessMessagePropagates(exc, result) ==
    IF exc # "" THEN Escaped(exc) ELSE Returned(SuccessResponse(result))

ProcessMessageOutcome(exc, result) ==
    IF exc # "" THEN Returned(ErrorResponse(exc)) ELSE Returned(SuccessResponse(result))

\* chat(): the response of process_message with HTTP 200, or
\* HTTPException(status_code=500, detail=str(e)) when it raised.
HttpReply(status, response, detail) ==
    [status |-> status, response |-> response, detail |-> detail]
NoReply == HttpReply(0, NoResponse, "")
ChatHandlerReply(outcome) ==
    IF outcome.raised THEN HttpReply(500, NoResponse, outcome.detail)
    ELSE HttpReply(200, outcome.response, "")
\* Request validation failed: FastAPI answers 422 before the handler runs.
ValidationReply == HttpReply(422, NoResponse, "validation error")

\* RAGEngine.generate, line 73: the prompt is built from the query and the
\* documents just retrieved.
GeneratePromptNoDocs(query, docs) == build_without_context(query)
GeneratePrompt(query, docs) == build(query, docs)

\* The RAGEngine object: its lazily built retriever and LLM, and the
\* FAISSRetriever's fields.
Engine(hasRetriever, hasLLM, faiss) ==
    [hasRetriever |-> hasRetriever, hasLLM |-> hasLLM, faiss |-> faiss]
NewEngine == Engine(FALSE, FALSE, FaissEmpty)

\* What retriever.search did for generate: whether it was called at all,
\* whether it raised, and the documents it returned.
SearchOutcome(called, raised, error, docs) ==
    [called |-> called, raised |-> raised, error |-> error, documents |-> docs]

\* RAGEngine.generate(query), lines 66-82, given what self.retriever.search
\* did (search) and how the LLM behaves (out). What the call did:
\*   exc        the exception it raised ("" when it returned)
\*   log        the pipeline calls it made, in order
\*   documents, prompt, llmPrompt, llmOut   the values of the call
\*   result     the dict returned
RagPipeline(search, query, out) ==
    LET retrieved == search.called /\ ~search.raised
        docs == IF retrieved THEN search.documents ELSE <<>>
        built == retrieved /\ ~BuildRaises(docs)
        p == IF built THEN GeneratePrompt(query, docs) ELSE <<>>
        answered == built /\ ~out.raised
    IN  [ exc |-> IF ~retrieved THEN search.error
                  ELSE IF ~built THEN "build error"
                  ELSE IF out.raised THEN out.text
                  ELSE "",
          log |-> IF ~search.called THEN <<>>
                  ELSE IF ~retrieved THEN <<"search">>
                  ELSE IF ~built THEN <<"search", "build">>
                  ELSE <<"search", "build", "llm">>,
          documents |-> docs,
          prompt |-> p,
          llmPrompt |-> p,
          llmOut |-> IF built THEN out ELSE Outcome(FALSE, ""),
          result |-> IF answered THEN RagResult(out.text, docs) ELSE NoResult ]

\* generate on the engine ChatService creates, RAGEngine() with no
\* arguments: the retriever property builds a FAISSRetriever on first use
\* (the lazy import of app.retriever works or raises: importOk), search loads
\* the index if it is not loaded (from the directory as it is now, fs) and is
\* called with the default top_k and score_threshold; the llm property builds
\* the LLM once the prompt is built. `call` is what the call did, `engine` the
\* engine afterwards.
RagGenerate(eng, query, fs, importOk, out) ==
    LET haveRetriever == eng.hasRetriever \/ importOk
        cache == IF haveRetriever THEN FaissLoadIndex(eng.faiss, fs) ELSE eng.faiss
        search == IF haveRetriever
                  THEN SearchOutcome(TRUE, FALSE, "",
                        FaissSearch(cache, query, DEFAULT_TOP_K, DEFAULT_SCORE_THRESHOLD))
                  ELSE SearchOutcome(FALSE, TRUE, "retriever error", <<>>)
        call == RagPipeline(search, query, out)
    IN  [ engine |-> Engine(haveRetriever, eng.hasLLM \/ "llm" \in { call.log[i] : i \in 1..Len(call.log) }, cache),
          call |-> call ]

\* ==================================================================== state
VARIABLES
    files,          \* the vectorstore directory on disk
    rag_engine,     \* ChatService._rag_engine: 0 is None, else the engine's number
    created,        \* how many RAGEngine objects the service has constructed
    engine,         \* the state of the RAGEngine (when rag_engine # 0)
    loadedFrom,     \* history: the directory as it was when the index was loaded
    pc,             \* each request: "idle", or "handler" once validated
    body,           \* the JSON body of each request
    last,           \* the request answered last and everything done for it
    collection,     \* the Chroma collection, as ranked for a query
    faissRet,       \* a FAISSRetriever used on its own
    searched,       \* the last direct call of a retriever's search
    piped,          \* the last generate of an engine given a ChromaRetriever
    built           \* the last direct call of PromptBuilder.build

svcVars == <<rag_engine, created, engine, loadedFrom>>
chatVars == <<svcVars, pc, body, last>>
retVars == <<collection, faissRet, searched, piped, built>>
vars == <<files, chatVars, retVars>>

NoLoad == [loaded |-> FALSE, files |-> Files(FALSE, FALSE, <<>>)]
NoOutcome == Outcome(FALSE, "")

\* The record of an answered request: its body, whether chat() was called for
\* it, the engine it used, whether it created the engine and loaded the
\* index, what generate did, and the HTTP reply; prevFailed tells whether
\* the chat() call completed most recently before this answer ended in
\* process_message's except branch.
Answered(b, called, engineUsed, madeEngine, loadedIndex, call, rep, prevFailed) ==
    [ body |-> b, called |-> called, engineUsed |-> engineUsed,
      madeEngine |-> madeEngine, loadedIndex |-> loadedIndex,
      prevFailed |-> prevFailed,
      exc |-> call.exc, log |-> call.log, documents |-> call.documents,
      prompt |-> call.prompt, llmPrompt |-> call.llmPrompt, llmOut |-> call.llmOut,
      result |-> call.result, reply |-> rep ]
NoCall ==
    [ exc |-> "", log |-> <<>>, documents |-> <<>>, prompt |-> <<>>,
      llmPrompt |-> <<>>, llmOut |-> NoOutcome, result |-> NoResult ]
Nothing == Answered(MissingBody, FALSE, 0, FALSE, FALSE, NoCall, NoReply, FALSE)

\* The record of a direct search call: the retriever, the arguments, and
\* what the call did.
Searched(kind, query, top_k, threshold, did) ==
    [ kind |-> kind, query |-> query, top_k |-> top_k, threshold |-> threshold,
      queried |-> did.queried, raised |-> did.raised, reply |-> did.reply,
      documents |-> did.documents ]
NoSearch ==
    Searched("none", <<>>, 0, Rat(0, 1),
             [queried |-> FALSE, raised |-> FALSE, reply |-> <<>>, documents |-> <<>>])
\* The record of a generate call on an engine with a ChromaRetriever.
Piped(called, query, search, call) ==
    [ called |-> called, query |-> query, reply |-> search.reply, call |-> call ]
NoPiped ==
    Piped(FALSE, <<>>, [reply |-> <<>>], NoCall)
\* The record of a direct call build(query, documents): its arguments,
\* whether it has been made, whether it raised, and the prompt it returned.
Built(called, query, documents, raised, prompt) ==
    [ called |-> called, query |-> query, documents |-> documents,
      raised |-> raised, prompt |-> prompt ]
NoBuilt == Built(FALSE, <<>>, <<>>, FALSE, <<>>)

Init ==
    /\ files \in FileStates
    /\ rag_engine = 0
    /\ created = 0
    /\ engine = NewEngine
    /\ loadedFrom = NoLoad
    /\ pc = [r \in Requests |-> "idle"]
    /\ body = [r \in Requests |-> MissingBody]
    /\ last = Nothing
    /\ collection = <<>>
    /\ faissRet = FaissEmpty
    /\ searched = NoSearch
    /\ piped = NoPiped
    /\ built = NoBuilt

\* ------------------------------------------------------------- environment
\* Somebody rebuilds, adds or removes the vectorstore files.
FileChange ==
    /\ \E f \in FileStates \ {files} : files' = f
    /\ UNCHANGED <<chatVars, retVars>>

\* Whether the chat() call completed most recently ended in the except
\* branch of process_message.
LastCallFailed == IF last.called THEN last.exc # "" ELSE last.prevFailed

\* ----------------------------------------------------------------- request
\* A POST /api/chat arrives. FastAPI validates the body against ChatRequest
\* before chat() is called: an invalid one is answered 422 at once, a valid
\* one waits for the event loop to run its handler.
Receive(r, b) ==
    /\ pc[r] = "idle"
    /\ pc' = [pc EXCEPT ![r] = IF ChatRequestValid(b) THEN "handler" ELSE "idle"]
    /\ body' = [body EXCEPT ![r] = IF ChatRequestValid(b) THEN b ELSE MissingBody]
    /\ last' = IF ChatRequestValid(b) THEN last
               ELSE Answered(b, FALSE, 0, FALSE, FALSE, NoCall, ValidationReply,
                             LastCallFailed)
    /\ UNCHANGED <<files, svcVars, retVars>>

\* ChatService.rag_engine: "if self._rag_engine is None".
EngineMissingAlways(e) == TRUE
EngineMissing(e) == e = 0

\* The event loop runs chat() for a waiting request. chat() and
\* process_message are coroutines without a suspension point (the one await
\* is on process_message itself, which awaits nothing), so the handler runs
\* from its first line to its return before the loop runs anything else:
\* self.rag_engine (creating the engine if there is none), generate(message),
\* the ChatResponse or the except branch, and chat()'s reply.
Handle(r, importOk, out) ==
    LET make == EngineMissing(rag_engine)
        eng == IF make THEN NewEngine ELSE engine
        gen == RagGenerate(eng, body[r].message, files, importOk, out)
        call == gen.call
        rep == ChatHandlerReply(ProcessMessageOutcome(call.exc, call.result))
        loads == gen.engine.faiss.index /\ ~eng.faiss.index
    IN  /\ pc[r] = "handler"
        /\ created' = IF make THEN created + 1 ELSE created
        /\ rag_engine' = IF make THEN created + 1 ELSE rag_engine
        /\ engine' = gen.engine
        /\ loadedFrom' = IF loads
                         THEN [loaded |-> TRUE, files |-> files]
                         ELSE IF make THEN NoLoad ELSE loadedFrom
        /\ last' = Answered(body[r], TRUE, rag_engine', make, loads, call, rep,
                             LastCallFailed)
        /\ pc' = [pc EXCEPT ![r] = "idle"]
        /\ body' = [body EXCEPT ![r] = MissingBody]
        /\ UNCHANGED <<files, retVars>>

AnyReceive == \E r \in Requests, b \in Bodies : Receive(r, b)
AnyHandle == \E r \in Requests, importOk \in BOOLEAN, out \in LLMOutcomes : Handle(r, importOk, out)

Next ==
    \/ FileChange
    \/ AnyReceive
    \/ AnyHandle

Spec == Init /\ [][Next]_vars


\* ============================================== the retrievers on their own
Queries == { <<>>, <<" ">>, <<"a">>, <<" ", "a">> }
TopKs == { 0, 1, DEFAULT_TOP_K }
Thresholds == { Rat(0, 1), Rat(1, 2), DEFAULT_SCORE_THRESHOLD }

InitChroma ==
    /\ files = Files(FALSE, FALSE, <<>>)
    /\ rag_engine = 0
    /\ created = 0
    /\ engine = NewEngine
    /\ loadedFrom = NoLoad
    /\ pc = [r \in Requests |-> "idle"]
    /\ body = [r \in Requests |-> MissingBody]
    /\ last = Nothing
    /\ collection \in Collections
    /\ faissRet = FaissEmpty
    /\ searched = NoSearch
    /\ piped = NoPiped
    /\ built = NoBuilt

\* ChromaRetriever.search(query, top_k) is called.
ChromaSearchCall(query, top_k, storeOk) ==
    /\ searched' = Searched("chroma", query, top_k, Rat(0, 1),
                            ChromaSearch(collection, query, top_k, storeOk))
    /\ piped' = NoPiped
    /\ UNCHANGED <<files, chatVars, collection, faissRet, built>>

\* RAGEngine(retriever=ChromaRetriever(...)).generate(query): search is
\* called with the query alone (top_k None).
ChromaGenerate(query, storeOk, out) ==
    LET did == ChromaSearch(collection, query, 0, storeOk)
        search == SearchOutcome(TRUE, did.raised, "search error", did.documents)
    IN  /\ piped' = Piped(TRUE, query, did, RagPipeline(search, query, out))
        /\ searched' = NoSearch
        /\ UNCHANGED <<files, chatVars, collection, faissRet, built>>

AnyChromaSearchCall ==
    \E query \in Queries, top_k \in TopKs, storeOk \in BOOLEAN :
        ChromaSearchCall(query, top_k, storeOk)
AnyChromaGenerate ==
    \E query \in Queries, storeOk \in BOOLEAN, out \in LLMOutcomes :
        ChromaGenerate(query, storeOk, out)

NextChroma ==
    \/ AnyChromaSearchCall
    \/ AnyChromaGenerate

SpecChroma == InitChroma /\ [][NextChroma]_vars

FaissFileStates ==
    { Files(FALSE, FALSE, <<>>), Files(TRUE, FALSE, <<>>) }
        \cup { Files(TRUE, TRUE, PickledList(n)) : n \in 0..MaxIndexDocs }

InitFaiss ==
    /\ files \in FaissFileStates
    /\ rag_engine = 0
    /\ created = 0
    /\ engine = NewEngine
    /\ loadedFrom = NoLoad
    /\ pc = [r \in Requests |-> "idle"]
    /\ body = [r \in Requests |-> MissingBody]
    /\ last = Nothing
    /\ collection = <<>>
    /\ faissRet = FaissEmpty
    /\ searched = NoSearch
    /\ piped = NoPiped
    /\ built = NoBuilt

\* FAISSRetriever.search(query, top_k, score_threshold) is called: the index
\* is loaded if it is not, then the documents are returned.
FaissSearchCall(query, top_k, threshold) ==
    LET cache == FaissLoadIndex(faissRet, files)
    IN  /\ faissRet' = cache
        /\ searched' = Searched("faiss", query, top_k, threshold,
                [queried |-> cache.index /\ cache.hasDocs, raised |-> FALSE,
                 reply |-> <<>>,
                 documents |-> FaissSearch(cache, query, top_k, threshold)])
        /\ UNCHANGED <<files, chatVars, collection, piped, built>>

\* The vectorstore files are rebuilt, added or removed.
FaissFileChange ==
    /\ \E f \in FaissFileStates \ {files} : files' = f
    /\ UNCHANGED <<chatVars, retVars>>

AnyFaissSearchCall ==
    \E query \in Queries, top_k \in TopKs \ {0}, threshold \in Thresholds :
        FaissSearchCall(query, top_k, threshold)

NextFaiss ==
    \/ AnyFaissSearchCall
    \/ FaissFileChange

SpecFaiss == InitFaiss /\ [][NextFaiss]_vars

\* ============================================= the prompt builder on its own
\* The documents build is called with: each key present or absent, the
\* metadata a dict (with or without title and url) or None.
BuildContents == { NoKey, "cA" }
BuildMetadata == { MetaDict("tA", "uA"), MetaDict("tB", NoKey), EmptyDict,
                   MetaAbsent, MetaNone }
BuildScores == { NoScore, Rat(1, 3), Rat(1, 1) }
BuildDocs == { Doc(c, m, sc) : c \in BuildContents, m \in BuildMetadata, sc \in BuildScores }
BuildQueries == { <<"a">>, <<"a", "b">> }
RECURSIVE DocLists(_)
DocLists(n) ==
    IF n = 0 THEN { <<>> }
    ELSE LET shorter == DocLists(n - 1)
         IN  shorter \cup { Append(l, d) : l \in { t \in shorter : Len(t) = n - 1 },
                                            d \in BuildDocs }

InitBuild ==
    /\ files = Files(FALSE, FALSE, <<>>)
    /\ rag_engine = 0
    /\ created = 0
    /\ engine = NewEngine
    /\ loadedFrom = NoLoad
    /\ pc = [r \in Requests |-> "idle"]
    /\ body = [r \in Requests |-> MissingBody]
    /\ last = Nothing
    /\ collection = <<>>
    /\ faissRet = FaissEmpty
    /\ searched = NoSearch
    /\ piped = NoPiped
    /\ built \in { Built(FALSE, query, documents, FALSE, <<>>) :
                        query \in BuildQueries, documents \in DocLists(MaxBuildDocs) }

\* PromptBuilder().build(query, documents) is called with the arguments at
\* hand.
BuildCall ==
    /\ ~built.called
    /\ built' = Built(TRUE, built.query, built.documents, BuildRaises(built.documents),
                      IF BuildRaises(built.documents) THEN <<>>
                      ELSE build(built.query, built.documents))
    /\ UNCHANGED <<files, chatVars, collection, faissRet, searched, piped>>

NextBuild == BuildCall

SpecBuild == InitBuild /\ [][NextBuild]_vars

\* =================================================================== claims
Range(s) == { s[i] : i \in 1..Len(s) }
IsPrefix(s, t) == Len(s) <= Len(t) /\ \A i \in 1..Len(s) : s[i] = t[i]
PIPELINE == <<"search", "build", "llm">>

C2_ExceptionGives500 ==
    (last.called /\ last.exc # "") => last.reply.status = 500

\* C2 amended: an exception raised by a pipeline step is caught by
\* process_message; the client gets HTTP 200 with the apology answer, no
\* sources and metadata {"error": str(e)}.
C2_ExceptionGivesApology ==
    (last.called /\ last.exc # "") =>
        /\ last.reply.status = 200
        /\ last.reply.response.answer = APOLOGY
        /\ last.reply.response.sources = <<>>
        /\ last.reply.response.metadata.keys = {"error"}
        /\ last.reply.response.metadata.error = last.exc

\* C2 witness: the LLM raised after retrieval and prompt building succeeded.
C2_Witness ==
    /\ last.called
    /\ last.exc = "llm error"
    /\ last.log = PIPELINE
    /\ last.reply.status = 200

\* C3: when retrieval returns [], the prompt is exactly
\* build_without_context(query), with no context section; the LLM is called
\* once, with that prompt; and the result of a call that returns has
\* sources = [] and num_sources = 0.
C3_Fallback ==
    (last.called /\ last.log # <<>> /\ last.documents = <<>>) =>
        /\ last.log = PIPELINE
        /\ last.prompt = build_without_context(last.body.message)
        /\ last.llmPrompt = build_without_context(last.body.message)
        /\ \A i \in 1..Len(last.llmPrompt) :
                last.llmPrompt[i].k \notin {"Nguon", "DU LIEU DAU VAO (CONTEXT):"}
        /\ (last.exc = "" =>
                /\ last.result.sources = <<>>
                /\ last.result.num_sources = 0
                /\ last.reply.response.sources = <<>>
                /\ last.reply.response.metadata.num_sources = 0)

\* C3 witness: an answered request whose retrieval found nothing although the
\* index and an (empty) documents list were loaded.
C3_Witness ==
    /\ last.called
    /\ last.exc = ""
    /\ last.documents = <<>>
    /\ engine.faiss.index
    /\ engine.faiss.hasDocs
    /\ last.result.num_sources = 0

\* What a service that has handled nothing yet answers to the message, with
\* the directory as it is (fs) and the LLM behaving as it did (out).
FreshReply(message, fs, out) ==
    LET call == RagGenerate(NewEngine, message, fs, TRUE, out).call
    IN  ChatHandlerReply(ProcessMessageOutcome(call.exc, call.result))

\* What a service answers whose retriever exists and holds what it read from
\* the directory as it was at its first load (lf).
ReplyFromLoad(message, lf, out) ==
    LET cache == IF lf.loaded THEN FaissLoadIndex(FaissEmpty, lf.files) ELSE FaissEmpty
        call == RagGenerate(Engine(TRUE, TRUE, cache), message, Files(FALSE, FALSE, <<>>), TRUE, out).call
    IN  ChatHandlerReply(ProcessMessageOutcome(call.exc, call.result))

HandledOk == \E r \in Requests : pc[r] = "handler" /\ pc'[r] = "idle" /\ last'.exc = ""

\* C4 as stated: the response depends only on the message and on what the
\* files and the LLM reply at the time of the request, so it is the response
\* of a service that handled nothing before.
C4_Stateless ==
    [][HandledOk => last'.reply = FreshReply(last'.body.message, files, last'.llmOut)]_vars

\* C4 amended: the response is determined by the message, the LLM's reply and
\* the documents the service's retriever read when it first loaded the index
\* (none while no index was loaded), whatever the files hold now.
C4_DeterminedByFirstLoad ==
    (last.called /\ last.exc # "retriever error") =>
        /\ last.reply = ReplyFromLoad(last.body.message, loadedFrom, last.llmOut)
        /\ (~loadedFrom.loaded => last.documents = <<>>)

\* C4 witness: a request answered from documents an earlier request loaded.
C4_Witness ==
    /\ last.called
    /\ last.exc = ""
    /\ ~last.loadedIndex
    /\ loadedFrom.loaded
    /\ last.documents # <<>>

\* C6: the handler runs only for messages of 1 to 1000 characters; a missing,
\* empty or longer message is answered 422 and process_message is not called.
C6_ValidatedBeforeHandler ==
    /\ \A r \in Requests : pc[r] = "handler" =>
            /\ body[r].present
            /\ Len(body[r].message) \in MIN_LENGTH..MAX_LENGTH
    /\ last.called =>
            /\ last.body.present
            /\ Len(last.body.message) \in MIN_LENGTH..MAX_LENGTH
    /\ (last # Nothing /\ (~last.body.present \/ Len(last.body.message) \notin MIN_LENGTH..MAX_LENGTH)) =>
            /\ ~last.called
            /\ last.log = <<>>
            /\ last.reply.status = 422

\* C6 witness: a message of 1001 characters was rejected.
C6_Witness ==
    /\ last.body.present
    /\ Len(last.body.message) = MAX_LENGTH + 1
    /\ last.reply.status = 422
    /\ ~last.called

\* C10: the service constructs at most one RAGEngine, on the first request
\* handled; every handled request uses that engine.
C10_OneEngine ==
    /\ created <= 1
    /\ (rag_engine = 0) = (created = 0)
    /\ last.called => (created = 1 /\ last.engineUsed = 1 /\ rag_engine = 1)

\* C10 witness: with requests in flight at once, one was handled by the
\* engine an earlier request created, another is still waiting.
C10_Witness ==
    /\ last.called
    /\ ~last.madeEngine
    /\ last.engineUsed = 1
    /\ \E r \in Requests : pc[r] = "handler"

ChromaReturned == searched.kind = "chroma" /\ searched.queried /\ ~searched.raised
\* 2 * score + distance = 2, that is score = 1 - distance / 2.
HalvesDistance(score, distance) ==
    2 * score.num * distance.den + distance.num * score.den
        = 2 * score.den * distance.den

\* C5: each document returned by ChromaRetriever.search has score
\* 1 - distance/2 for the distance the store reported for it; a distance in
\* [0, 2] gives a score in [0, 1], distance 0 gives 1, distance 2 gives 0,
\* and a smaller distance never gives a smaller score.
C5_ScoreNormalization ==
    ChromaReturned =>
        /\ Len(searched.documents) = Len(searched.reply)
        /\ \A i \in 1..Len(searched.documents) :
            LET d == searched.reply[i].distance
                sc == searched.documents[i].score
            IN  /\ HalvesDistance(sc, d)
                /\ (RatLeq(Rat(0, 1), d) /\ RatLeq(d, Rat(2, 1)))
                        => (RatLeq(Rat(0, 1), sc) /\ RatLeq(sc, Rat(1, 1)))
                /\ RatEq(d, Rat(0, 1)) => RatEq(sc, Rat(1, 1))
                /\ RatEq(d, Rat(2, 1)) => RatEq(sc, Rat(0, 1))
        /\ \A i, j \in 1..Len(searched.documents) :
            RatLeq(searched.reply[i].distance, searched.reply[j].distance)
                => RatLeq(searched.documents[j].score, searched.documents[i].score)

\* C5 witness: a search returned a document at distance 0 and one at
\* distance 2.
C5_Witness ==
    /\ ChromaReturned
    /\ Len(searched.documents) = 2
    /\ RatEq(searched.reply[1].distance, Rat(0, 1))
    /\ RatEq(searched.reply[2].distance, Rat(2, 1))
    /\ RatEq(searched.documents[1].score, Rat(1, 1))
    /\ RatEq(searched.documents[2].score, Rat(0, 1))

\* What the store holds for a search with this top_k, converted one by one.
ExpectedFromStore(top_k) == ChromaQuery(collection, ChromaTopK(top_k))
OnePerResult(docs, results) ==
    /\ Len(docs) = Len(results)
    /\ \A i \in 1..Len(docs) :
        /\ docs[i].content = results[i].document
        /\ docs[i].metadata.title = results[i].metadata.title
        /\ docs[i].metadata.url = results[i].metadata.url
        /\ HalvesDistance(docs[i].score, results[i].distance)

\* C7 as stated: for a non-empty query, search returns one document for each
\* result the store has for the query (up to top_k), in the store's order,
\* whatever the distances.
C7_NonEmptyQueryReturnsAll ==
    (searched.kind = "chroma" /\ ~searched.raised /\ searched.query # <<>>) =>
        OnePerResult(searched.documents, ExpectedFromStore(searched.top_k))

\* C7 amended: the same for a query with a character that is not whitespace;
\* for an empty or whitespace-only query search returns [] and the store is
\* not asked.
C7_NonBlankQueryReturnsAll ==
    (searched.kind = "chroma" /\ ~searched.raised) =>
        IF IsBlank(searched.query)
        THEN searched.documents = <<>> /\ ~searched.queried
        ELSE /\ searched.queried
             /\ searched.reply = ExpectedFromStore(searched.top_k)
             /\ OnePerResult(searched.documents, searched.reply)

\* C7 witness: a search returned two documents, the second with a score
\* below settings.SCORE_THRESHOLD.
C7_Witness ==
    /\ ChromaReturned
    /\ ~IsBlank(searched.query)
    /\ Len(searched.documents) = 2
    /\ RatLess(searched.documents[2].score, SCORE_THRESHOLD)

\* C8: every document returned by ChromaRetriever.search has the keys
\* content, metadata and score, and its metadata is a dict ({} when the store
\* has None); so build does not raise on the documents and the sources of
\* generate are their metadata dicts.
C8_MetadataIsDict ==
    /\ ChromaReturned =>
        \A i \in 1..Len(searched.documents) :
            /\ DOMAIN searched.documents[i] = {"content", "metadata", "score"}
            /\ searched.documents[i].metadata.kind = "dict"
            /\ searched.reply[i].metadata.kind = "none"
                    => searched.documents[i].metadata = EmptyDict
            /\ searched.reply[i].metadata.kind = "dict"
                    => searched.documents[i].metadata = searched.reply[i].metadata
    /\ piped.called =>
        /\ piped.call.exc # "build error"
        /\ \A i \in 1..Len(piped.call.documents) :
                piped.call.documents[i].metadata.kind = "dict"
        /\ piped.call.exc = "" =>
                /\ piped.call.result.num_sources = Len(piped.reply)
                /\ \A i \in 1..Len(piped.call.result.sources) :
                        piped.call.result.sources[i].kind = "dict"

\* C8 witness: generate returned an answer from documents of which the store
\* holds None as the metadata of one.
C8_Witness ==
    /\ piped.called
    /\ piped.call.exc = ""
    /\ \E i \in 1..Len(piped.reply) :
            /\ piped.reply[i].metadata.kind = "none"
            /\ piped.call.result.sources[i] = EmptyDict

\* C9: every document FAISSRetriever.search(query, top_k, score_threshold)
\* returns has score >= score_threshold.
C9_ThresholdIsMinimum ==
    searched.kind = "faiss" =>
        \A i \in 1..Len(searched.documents) :
            RatLeq(searched.threshold, searched.documents[i].score)

\* A step in which chat() ran for a request and the pipeline raised.
HandledFailed == \E r \in Requests : pc[r] = "handler" /\ pc'[r] = "idle" /\ last'.exc # ""
\* A step in which chat() ran for a request.
Handled == \E r \in Requests : pc[r] = "handler" /\ pc'[r] = "idle"

\* The reply to a request whose pipeline raised: process_message returned
\* (HTTP 200) the apology with no sources and metadata {"error": str(e)}.
IsApologyFor(rep, exc) ==
    /\ rep.status = 200
    /\ rep.response.answer = APOLOGY
    /\ rep.response.sources = <<>>
    /\ rep.response.metadata.keys = {"error"}
    /\ rep.response.metadata.error = exc

\* The request after a failure is processed like any request: by the engine
\* the service holds, answered with the success response when its own
\* pipeline returns and with the apology when it raises, from the documents
\* the retriever loaded.
ProcessedNormally ==
    /\ last'.engineUsed = rag_engine
    /\ ~last'.madeEngine
    /\ last'.exc = "" => last'.reply = HttpReply(200, SuccessResponse(last'.result), "")
    /\ last'.exc # "" => IsApologyFor(last'.reply, last'.exc)
    /\ last'.exc # "retriever error" =>
            last'.reply = ReplyFromLoad(last'.body.message, loadedFrom', last'.llmOut)

\* C11 as stated: process_message never raises; a pipeline exception gives
\* the apology response; the failing request leaves the service's state, its
\* engine, as it was before; and the next request is processed normally.
C11_FailureLeavesEngineUnchanged ==
    [][ /\ HandledFailed =>
            /\ IsApologyFor(last'.reply, last'.exc)
            /\ rag_engine' = rag_engine
            /\ engine' = engine
        /\ (Handled /\ LastCallFailed) => ProcessedNormally ]_vars

\* What the engine had built or loaded before the step, it still has after.
EngineKept ==
    /\ engine.hasRetriever => engine'.hasRetriever
    /\ engine.hasLLM => engine'.hasLLM
    /\ engine.faiss.index => engine'.faiss = engine.faiss

\* C11 amended: process_message never raises; a pipeline exception gives the
\* apology response; the failure discards nothing: the service has an engine
\* afterwards, an engine that existed before is the same one and keeps its
\* retriever, loaded index and LLM, while what the failing request built
\* before it raised (the engine, the retriever, the index, the LLM) stays;
\* and the next request is processed normally by that engine.
C11_FailureKeepsEngine ==
    [][ /\ HandledFailed =>
            /\ IsApologyFor(last'.reply, last'.exc)
            /\ rag_engine' # 0
            /\ last'.engineUsed = rag_engine'
            /\ rag_engine # 0 => (rag_engine' = rag_engine /\ created' = created)
            /\ EngineKept
        /\ (Handled /\ LastCallFailed) => ProcessedNormally ]_vars

\* C11 witness: a request answered from retrieved documents by the engine
\* that served the failed request before it.
C11_Witness ==
    /\ last.called
    /\ last.prevFailed
    /\ last.exc = ""
    /\ ~last.madeEngine
    /\ last.engineUsed = rag_engine
    /\ Len(last.documents) >= 1
    /\ last.reply.status = 200

\* C12: the sources of every ChatResponse process_message produces agree
\* with the retrieval of its request. On success sources[i] is the metadata
\* of the i-th retrieved document, for every retrieved document and in
\* retrieval order, and metadata is {"model", "num_sources"} with
\* num_sources = len(sources) = the number of retrieved documents. On
\* failure sources is empty and metadata has no num_sources.
C12_SourcesMatchRetrieval ==
    last.called =>
        /\ last.reply.status = 200
        /\ last.exc = "" =>
            /\ last.documents = FaissSearch(engine.faiss, last.body.message,
                                            DEFAULT_TOP_K, DEFAULT_SCORE_THRESHOLD)
            /\ Len(last.reply.response.sources) = Len(last.documents)
            /\ \A i \in 1..Len(last.documents) :
                    last.reply.response.sources[i] = last.documents[i].metadata
            /\ last.reply.response.metadata.keys = {"model", "num_sources"}
            /\ last.reply.response.metadata.num_sources = Len(last.reply.response.sources)
            /\ last.reply.response.metadata.num_sources = Len(last.documents)
        /\ last.exc # "" =>
            /\ last.reply.response.sources = <<>>
            /\ "num_sources" \notin last.reply.response.metadata.keys

\* C12 witness: a response with two different sources, from two retrieved
\* documents.
C12_Witness ==
    /\ last.called
    /\ last.exc = ""
    /\ Len(last.documents) = 2
    /\ Len(last.reply.response.sources) = 2
    /\ last.reply.response.sources[1] # last.reply.response.sources[2]
    /\ last.reply.response.metadata.num_sources = 2

\* The i-th source block carries the document: its number, the title and url
\* of its metadata (the defaults when the key or the metadata is absent), its
\* score to two decimals (0.00 when absent) and its content.
Carries(block, i, doc) ==
    /\ block.k = "Nguon"
    /\ block.i = i
    /\ block.title = IF doc.metadata.kind = "dict" /\ doc.metadata.title # NoKey
                     THEN doc.metadata.title ELSE "Nguon khong ten"
    /\ block.url = IF doc.metadata.kind = "dict" /\ doc.metadata.url # NoKey
                   THEN doc.metadata.url ELSE "#"
    /\ block.score = IF doc.score = NoScore THEN Rat(0, 100) ELSE Fmt2f(doc.score)
    /\ block.content = IF doc.content = NoKey THEN "" ELSE doc.content

\* The prompt starts with the system prompt, its source blocks are one per
\* document, numbered 1..n in the order of the documents, and the query
\* comes once, after every block.
ContextFormatted(query, documents, prompt) ==
    LET IsBlock(seg) == seg.k = "Nguon"
        blocks == SelectSeq(prompt, IsBlock)
        queryAt == { j \in 1..Len(prompt) : prompt[j].k = "query" }
    IN  /\ Len(prompt) >= 1
        /\ prompt[1] = SYSTEM_PROMPT
        /\ Len(blocks) = Len(documents)
        /\ \A i \in 1..Len(documents) : Carries(blocks[i], i, documents[i])
        /\ Cardinality(queryAt) = 1
        /\ \A q \in queryAt :
                /\ prompt[q].query = query
                /\ \A j \in 1..Len(prompt) : prompt[j].k = "Nguon" => (1 < j /\ j < q)

\* C13 as stated: for every non-empty list of documents build returns a
\* prompt formatted as above.
C13_BuildFormatsEveryList ==
    (built.called /\ built.documents # <<>>) =>
        /\ ~built.raised
        /\ ContextFormatted(built.query, built.documents, built.prompt)

\* C13 amended: for a non-empty list of documents none of which has None as
\* its metadata, build returns a prompt formatted as above; when the
\* metadata of some document is None, build raises and returns no prompt.
C13_BuildFormatsDictMetadata ==
    (built.called /\ built.documents # <<>>) =>
        /\ built.raised <=>
                \E i \in 1..Len(built.documents) : built.documents[i].metadata.kind = "none"
        /\ ~built.raised =>
                ContextFormatted(built.query, built.documents, built.prompt)
        /\ built.raised => built.prompt = <<>>

\* C13 witness: build returned a prompt for two different documents, the
\* first without title, url, score and content, the second with all four.
C13_Witness ==
    /\ built.called
    /\ ~built.raised
    /\ Len(built.documents) >= 2
    /\ built.documents[1] = Doc(NoKey, MetaAbsent, NoScore)
    /\ built.documents[2] = Doc("cA", MetaDict("tA", "uA"), Rat(1, 3))
    /\ built.prompt[3].title = "Nguon khong ten"
    /\ built.prompt[4].title = "tA"
    /\ built.prompt[4].score = Rat(33, 100)

====
